---- MODULE Spec2Model ----
(***************************************************************************)
(* Model of wpsremote/servicebot.py: the ServiceBot agent.  The bus        *)
(* dispatcher calls handle_invite, handle_execute and handle_getloadavg;   *)
(* handle_execute starts one output_parser_verbose thread per worker; each *)
(* thread reads the worker's output, waits for its exit code under a       *)
(* threading.Timer that kills the worker, and routes an Error message.     *)
(***************************************************************************)
EXTENDS Integers, Sequences, FiniteSets, TLC

VARIABLES
    bus_state,             \* self.bus.state(): "connected" or "disconnected"
    remote_wps_endpoint,   \* self._remote_wps_endpoint
    active,                \* self._active, line 71
    run_log,               \* what run() logged: "listening" or "disabled"
    listening,             \* the bus Listen loop is still dispatching events
    escaped,               \* handlers whose exception reached the dispatcher
    reply,                 \* what the last handler call did (calls, logs)
    hpc,                   \* where the dispatcher thread is inside a handler
    epc,                   \* where a caller of send_error_message is inside it
    error_call,            \* what the last send_error_message call did
    pc,                    \* per job: position of its output_parser_verbose thread
    line,                  \* per job: local variable line
    gs_UID,                \* per job: local variable gs_UID
    gs_JID,                \* per job: local variable gs_JID
    gs_MSG,                \* per job: local variable gs_MSG
    return_code,           \* per job: local variable return_code
    proc,                  \* per job: the worker process (invoked_process)
    timer,                 \* per job: the threading.Timer of the exit-code wait
    param_file,            \* per job: content of the wps_params_ temporary file
    sent,                  \* per job: SendMessage calls made by its thread
    log,                   \* per job: log entries written by its thread
    kill_target,           \* per job: what invoked_process.kill hit, if it ran
    deser,                 \* per job: outcome of ExecuteMessage.deserialize
    seen                   \* per job: which kinds of tagged line were parsed

vars == <<bus_state, remote_wps_endpoint, active, run_log, listening, escaped,
          reply, hpc, epc, error_call, pc, line,
          gs_UID, gs_JID, gs_MSG, return_code, proc, timer, param_file, sent,
          log, kill_target, deser, seen>>

jobvars == <<pc, line, gs_UID, gs_JID, gs_MSG, return_code, proc, timer,
             param_file, sent, log, kill_target, deser, seen>>

(***************************************************************************)
(* Values.  Python's None and an optional value x are the tuples <<>> and  *)
(* <<x>>; strings are sequences of tokens, '' is the empty sequence.       *)
(***************************************************************************)
None == <<>>
Some(x) == <<x>>
Truthy(v) == v # None /\ v[1] # <<>>
Str(v) == IF v = None THEN <<"None">> ELSE v[1]

\* the two Execute requests (unique ids) that are followed
Jobs == {"A", "B"}

\* what each job's worker can print inside its tags, and who asked for it
UidOf == [A |-> "uA", B |-> "uB"]
JidOf == [A |-> "jA", B |-> "jB"]
MsgOf == [A |-> "mA", B |-> "mB"]
Uid2Of == [A |-> "uA2", B |-> "uB2"]
Jid2Of == [A |-> "jA2", B |-> "jB2"]
Msg2Of == [A |-> "mA2", B |-> "mB2"]
OriginatorOf == [A |-> "oA", B |-> "oB"]
UniqueIdOf == [A |-> "qA", B |-> "qB"]
Endpoint == <<"e">>

Sentinel == "send error msg complete"
EOF == <<>>

WellFormed(u, j, m) ==
    <<"<UID>", u, "</UID>", "<JID>", j, "</JID>", "<MSG>", m, "</MSG>">>
WellFormedLower(u, j, m) ==
    <<"<uid>", u, "</uid>", "<jid>", j, "</jid>", "<msg>", m, "</msg>">>
UidOnly(u) == <<"<UID>", u, "</UID>">>
JidOnly(j) == <<"<JID>", j, "</JID>">>
UidJid(u, j) == <<"<UID>", u, "</UID>", "<JID>", j, "</JID>">>
PlainLine == <<"text">>
SentinelLine == <<"ERROR", Sentinel>>

\* the lines a worker of job j may print
LinesOf(j) ==
    { WellFormed(UidOf[j], JidOf[j], MsgOf[j]),
      WellFormedLower(UidOf[j], JidOf[j], MsgOf[j]),
      WellFormed(Uid2Of[j], Jid2Of[j], Msg2Of[j]),
      UidOnly(Uid2Of[j]),
      JidOnly(Jid2Of[j]),
      UidJid(Uid2Of[j], Jid2Of[j]),
      PlainLine,
      SentinelLine }

ExitCodes == {0, 1}
SIGKILL == 9

(***************************************************************************)
(* re.search of an opening tag, a greedy group and the closing tag, with   *)
(* re.IGNORECASE, on a line of tokens (lines 258, 259 and 264):            *)
(* leftmost opening tag that has a closing tag after it, greedy group up   *)
(* to the last closing tag.  The result is None or Some(group(1)).         *)
(***************************************************************************)
Upper(tok) ==
    CASE tok = "<uid>" -> "<UID>" [] tok = "</uid>" -> "</UID>"
      [] tok = "<jid>" -> "<JID>" [] tok = "</jid>" -> "</JID>"
      [] tok = "<msg>" -> "<MSG>" [] tok = "</msg>" -> "</MSG>"
      [] OTHER -> tok

OpenTag(tag) == "<" \o tag \o ">"
CloseTag(tag) == "</" \o tag \o ">"

Min(S) == CHOOSE x \in S : \A y \in S : x <= y
Max(S) == CHOOSE x \in S : \A y \in S : x >= y

re_search(tag, ln) ==
    LET closes == {k \in 1..Len(ln) : Upper(ln[k]) = CloseTag(tag)}
        opens == {i \in 1..Len(ln) :
                     /\ Upper(ln[i]) = OpenTag(tag)
                     /\ \E k \in closes : k > i}
    IN IF opens = {} THEN None
       ELSE Some(SubSeq(ln, Min(opens) + 1, Max(closes) - 1))

\* variant: the sentinel phrase is not looked for
SentinelIgnored(ln) == FALSE

\* 'send error msg complete' in line
HasSentinel(ln) == \E i \in 1..Len(ln) : ln[i] = Sentinel

(***************************************************************************)
(* Lines 258-266: the new (gs_UID, gs_JID, gs_MSG) after one line.  The    *)
(* three assignments run in order inside one try; .group(1) on a failed    *)
(* search raises and the except leaves the later ones undone.              *)
(***************************************************************************)
ParseTags(old, ln) ==
    LET us == re_search("UID", ln)
        js == re_search("JID", ln)
        ms == re_search("MSG", ln)
    IN IF us = None THEN old
       ELSE IF js = None THEN [old EXCEPT !.uid = Some(us[1])]
       ELSE IF ms = None THEN [old EXCEPT !.uid = Some(us[1]), !.jid = Some(js[1])]
       ELSE [uid |-> Some(us[1]), jid |-> Some(js[1]), msg |-> Some(ms[1])]

(***************************************************************************)
(* History of the lines that went through lines 258-266: the values of the *)
(* well-formed lines, whether a UID tag and a JID tag were met, and the    *)
(* last line that carried a UID tag.                                       *)
(***************************************************************************)
IsTag(tok) == \E t \in {"UID", "JID", "MSG"} : Upper(tok) \in {OpenTag(t), CloseTag(t)}

IsWellFormed(ln) ==
    /\ Len(ln) = 9
    /\ <<Upper(ln[1]), Upper(ln[3]), Upper(ln[4]), Upper(ln[6]), Upper(ln[7]),
         Upper(ln[9])>> = <<"<UID>", "</UID>", "<JID>", "</JID>", "<MSG>", "</MSG>">>
    /\ ~IsTag(ln[2]) /\ ~IsTag(ln[5]) /\ ~IsTag(ln[8])

WellFormedValues(ln) == [uid |-> <<ln[2]>>, jid |-> <<ln[5]>>, msg |-> <<ln[8]>>]

NoSeen == [wf |-> {}, uid |-> FALSE, jid |-> FALSE, last |-> <<>>]

NoteSeen(old, ln) ==
    [wf |-> IF IsWellFormed(ln) THEN old.wf \cup {WellFormedValues(ln)} ELSE old.wf,
     uid |-> old.uid \/ re_search("UID", ln) # None,
     jid |-> old.jid \/ re_search("JID", ln) # None,
     last |-> IF re_search("UID", ln) # None THEN ln ELSE old.last]

(***************************************************************************)
(* Init: the state __init__ leaves (lines 71-110); the service is active   *)
(* or not (71), run() has not been called, no Execute has been             *)
(* received and the stored endpoint is what line 110 assigns.  InitPreset  *)
(* is the start of the runs that tier 2 presupposes: no code assigns the   *)
(* attribute again, so a stored endpoint is one set on the bot from        *)
(* outside.                                                                *)
(***************************************************************************)

\* variant: the constructor stores an endpoint
ConstructedWithEndpoint == Some(Endpoint)

\* self._remote_wps_endpoint = None, line 110
ConstructedEndpoint == None

NoReply == [handler |-> "none", bus |-> "none", inputs |-> None, reconnects |-> 0,
            calls |-> <<>>, logs |-> {}]
NoErrorCall == [bus |-> "none", msg |-> None, calls |-> <<>>, logs |-> {}]

InitWith(endpoints) ==
    /\ bus_state \in {"connected", "disconnected"}
    /\ remote_wps_endpoint \in endpoints
    /\ active \in BOOLEAN
    /\ run_log = {}
    /\ listening = FALSE
    /\ escaped = {}
    /\ reply = NoReply
    /\ hpc = "listen"
    /\ epc = "idle"
    /\ error_call = NoErrorCall
    /\ pc = [j \in Jobs |-> "idle"]
    /\ line = [j \in Jobs |-> None]
    /\ gs_UID = [j \in Jobs |-> None]
    /\ gs_JID = [j \in Jobs |-> None]
    /\ gs_MSG = [j \in Jobs |-> None]
    /\ return_code = [j \in Jobs |-> -1]
    /\ proc = [j \in Jobs |-> [state |-> "none", code |-> 0, reaped |-> FALSE]]
    /\ timer = [j \in Jobs |-> "none"]
    /\ param_file = [j \in Jobs |-> None]
    /\ sent = [j \in Jobs |-> <<>>]
    /\ log = [j \in Jobs |-> {}]
    /\ kill_target = [j \in Jobs |-> "none"]
    /\ deser = [j \in Jobs |-> "none"]
    /\ seen = [j \in Jobs |-> NoSeen]

Init == InitWith({ConstructedEndpoint})

InitPreset == InitWith({ConstructedEndpoint, Some(Endpoint)})

(***************************************************************************)
(* The bus (external collaborator).  SendMessage delivers when the bus is  *)
(* connected and the transport does not fail under it (ok); otherwise it   *)
(* raises and the bus is found disconnected.  reconnect() brings the bus   *)
(* up or raises.                                                           *)
(***************************************************************************)
Delivered(state, ok) == state = "connected" /\ ok
AfterSend(state, ok) == IF Delivered(state, ok) THEN "connected" ELSE "disconnected"

\* the record of one call: what was passed, the bus state it met, its outcome
SendCall(m, state, ok) ==
    [op |-> "SendMessage", msg |-> m, bus |-> state, ok |-> Delivered(state, ok)]
ReconnectCall(state, ok) ==
    [op |-> "reconnect", msg |-> None, bus |-> state, ok |-> ok]

PresenceCall(state, ok) ==
    [op |-> "send_presence", msg |-> None, bus |-> state, ok |-> Delivered(state, ok)]

\* xmpp.reconnect(): the bus is up, or the call raised
AfterReconnect(ok) == IF ok THEN "connected" ELSE "disconnected"

\* variant: the state of the bus is not looked at before sending
NeverReconnect(state) == FALSE

\* lines 143-145 and 230-232: reconnect only when state() is not 'connected'
NeedsReconnect(state) == state # "connected"

Inviter == <<"wps">>

RegisterMessage(to) ==
    [kind |-> "Register", to |-> to, service |-> "service",
     namespace |-> "namespace", description |-> "description",
     inputs |-> "input_parameters_DLR", outputs |-> "output_parameters_DLR"]

(***************************************************************************)
(* handle_invite, lines 138-159.  The whole body is inside                 *)
(* try/except BaseException.  The handler runs on the dispatcher thread;   *)
(* bus.state() (143), reconnect with send_presence (144-145) and           *)
(* SendMessage (146) are separate calls on the bus that the supervision    *)
(* threads use too, so each is a step: hpc is "listen" between handlers,   *)
(* "reconnect" before line 144, "presence" before line 145 and "send"      *)
(* before line 146.                                                        *)
(***************************************************************************)
handle_invite_state ==
    /\ listening /\ hpc = "listen"
    /\ reply' = [handler |-> "invite", bus |-> bus_state, inputs |-> None,
                 reconnects |-> 0, calls |-> <<>>, logs |-> {}]
    /\ hpc' = IF NeedsReconnect(bus_state) THEN "reconnect" ELSE "send"
    /\ UNCHANGED <<bus_state, remote_wps_endpoint, active, run_log, listening, escaped, epc,
                   error_call, jobvars>>

handle_invite_reconnect(rc_ok) ==
    /\ hpc = "reconnect" /\ reply.handler = "invite"
    /\ bus_state' = AfterReconnect(rc_ok)
    /\ reply' = [reply EXCEPT
                    !.reconnects = @ + 1,
                    !.calls = Append(@, ReconnectCall(bus_state, rc_ok)),
                    !.logs = IF rc_ok THEN @ ELSE @ \cup {"disconnected"}]
    /\ hpc' = IF rc_ok THEN "presence" ELSE "listen"
    /\ UNCHANGED <<remote_wps_endpoint, active, run_log, listening, escaped, epc, error_call,
                   jobvars>>

\* xmpp.send_presence(), line 145
handle_invite_presence(pr_ok) ==
    /\ hpc = "presence" /\ reply.handler = "invite"
    /\ bus_state' = AfterSend(bus_state, pr_ok)
    /\ reply' = [reply EXCEPT
                    !.calls = Append(@, PresenceCall(bus_state, pr_ok)),
                    !.logs = IF Delivered(bus_state, pr_ok) THEN @
                             ELSE @ \cup {"disconnected"}]
    /\ hpc' = IF Delivered(bus_state, pr_ok) THEN "send" ELSE "listen"
    /\ UNCHANGED <<remote_wps_endpoint, active, run_log, listening, escaped, epc, error_call,
                   jobvars>>

handle_invite_send(send_ok) ==
    /\ hpc = "send" /\ reply.handler = "invite"
    /\ bus_state' = AfterSend(bus_state, send_ok)
    /\ reply' = [reply EXCEPT
                    !.calls = Append(@, SendCall(RegisterMessage(Inviter),
                                                 bus_state, send_ok)),
                    !.logs = IF Delivered(bus_state, send_ok) THEN @
                             ELSE @ \cup {"disconnected"}]
    /\ hpc' = "listen"
    /\ UNCHANGED <<remote_wps_endpoint, active, run_log, listening, escaped, epc, error_call,
                   jobvars>>

(***************************************************************************)
(* handle_getloadavg, lines 199-243.  Percentages are kept in halves of a  *)
(* percent (Fix), so that the division by 2.0 of lines 210 and 214 is      *)
(* exact: Fix(x) stands for the float x, a + b for (a + b) / 2.0.          *)
(***************************************************************************)
Fix(x) == 2 * x
Saturated == Fix(100)

\* variant: the smoothed value is averaged in even when it is not positive
BlendAlways(inst, tested, averaged) == inst + averaged

\* lines 208-210 and 212-214: the sampler's smoothed value is read once for
\* the test (209, 213) and once more for the average (210, 214); the sampler
\* thread writes it without a lock, so the two reads may differ
Blend(inst, tested, averaged) == IF tested > 0 THEN inst + averaged ELSE Fix(inst)

\* lines 208-222: L, M the smoothed values the tests read, L2, M2 the ones
\* the averages read
Reported(l, m, L, L2, M, M2, bl) ==
    IF bl THEN [loadavg |-> Saturated, vmem |-> Saturated]
    ELSE [loadavg |-> Blend(l, L, L2), vmem |-> Blend(m, M, M2)]

LoadAverageMessage(to, outputs) ==
    [kind |-> "LoadAverage", to |-> to, loadavg |-> outputs.loadavg,
     vmem |-> outputs.vmem]

\* lines 205-230: the samples are read and the outputs built, then
\* bus.state() is looked at; or the except of 242 is reached, where
\* logger.exception(msg, ex) has an argument and no placeholder for it, so
\* the record fails to format and no entry is written
handle_getloadavg_state(l, m, L, L2, M, M2, bl, read_ok) ==
    /\ listening /\ hpc = "listen"
    /\ IF ~read_ok
       THEN /\ reply' = [handler |-> "getloadavg", bus |-> bus_state,
                         inputs |-> None,
                         reconnects |-> 0, calls |-> <<>>,
                         logs |-> {}]
            /\ UNCHANGED hpc
       ELSE /\ reply' = [handler |-> "getloadavg", bus |-> bus_state,
                         inputs |-> Some([l |-> l, m |-> m, L |-> L,
                                          L2 |-> L2, M |-> M, M2 |-> M2,
                                          bl |-> bl]),
                         reconnects |-> 0, calls |-> <<>>, logs |-> {}]
            /\ hpc' = IF NeedsReconnect(bus_state) THEN "reconnect" ELSE "send"
    /\ UNCHANGED <<bus_state, remote_wps_endpoint, active, run_log, listening, escaped, epc,
                   error_call, jobvars>>

\* line 231
handle_getloadavg_reconnect(rc_ok) ==
    /\ hpc = "reconnect" /\ reply.handler = "getloadavg"
    /\ bus_state' = AfterReconnect(rc_ok)
    /\ reply' = [reply EXCEPT
                    !.reconnects = @ + 1,
                    !.calls = Append(@, ReconnectCall(bus_state, rc_ok)),
                    !.logs = IF rc_ok THEN @ ELSE @ \cup {"disconnected"}]
    /\ hpc' = IF rc_ok THEN "presence" ELSE "listen"
    /\ UNCHANGED <<remote_wps_endpoint, active, run_log, listening, escaped, epc, error_call,
                   jobvars>>

\* xmpp.send_presence(), line 232
handle_getloadavg_presence(pr_ok) ==
    /\ hpc = "presence" /\ reply.handler = "getloadavg"
    /\ bus_state' = AfterSend(bus_state, pr_ok)
    /\ reply' = [reply EXCEPT
                    !.calls = Append(@, PresenceCall(bus_state, pr_ok)),
                    !.logs = IF Delivered(bus_state, pr_ok) THEN @
                             ELSE @ \cup {"disconnected"}]
    /\ hpc' = IF Delivered(bus_state, pr_ok) THEN "send" ELSE "listen"
    /\ UNCHANGED <<remote_wps_endpoint, active, run_log, listening, escaped, epc, error_call,
                   jobvars>>

\* lines 233-241
handle_getloadavg_send(send_ok) ==
    /\ hpc = "send" /\ reply.handler = "getloadavg"
    /\ LET inp == reply.inputs[1]
           out == LoadAverageMessage(Inviter,
                                     Reported(inp.l, inp.m, inp.L, inp.L2,
                                              inp.M, inp.M2, inp.bl))
       IN reply' = [reply EXCEPT
                       !.calls = Append(@, SendCall(out, bus_state, send_ok)),
                       !.logs = IF Delivered(bus_state, send_ok) THEN @
                                ELSE @ \cup {"disconnected"}]
    /\ bus_state' = AfterSend(bus_state, send_ok)
    /\ hpc' = "listen"
    /\ UNCHANGED <<remote_wps_endpoint, active, run_log, listening, escaped, epc, error_call,
                   jobvars>>

(***************************************************************************)
(* handle_execute, lines 161-197.  Only the resource cleaner block is in a *)
(* try (174-182): what it raises is caught and the handler goes on; the    *)
(* logger.exception(msg, ex) of 182 has no placeholder for its argument,   *)
(* the record fails to format and no entry is written.                     *)
(* serialize (167), Popen (187) and start_new_thread (195) are not in a    *)
(* try, so what one of them raises leaves the handler.  The Listen loop    *)
(* has no error path of its own.  The worker runs from 187 on and the      *)
(* thread from 195 on, while the handler is still on its way to 197.       *)
(* hpc: "popen" before 187, "thread" before 195, "return" before the       *)
(* handler returns; pc "starting" is a job whose handler has not reached   *)
(* 195 yet.                                                                *)
(***************************************************************************)
\* the calls of handle_execute that no try encloses
Faults == {"serialize", "popen", "thread"}

\* whether call f raises, when the calls in faults may
MayRaise(f, faults) == IF f \in faults THEN BOOLEAN ELSE {FALSE}

\* the originators an Execute message for job j may carry: an address or none
OriginatorsOf(j) == {Some(<<OriginatorOf[j]>>), None}

ExecuteMessage(j, orig) == [originator |-> orig, unique_id |-> <<UniqueIdOf[j]>>]

\* execute_message.serialize(tmp_file), lines 166-169
Serialize(msg) == Some(msg)

\* a handler raised into bus.Listen(): the loop stops dispatching
Listen(raises) == ~raises

\* variant: the worker is launched and no thread is started for it
ThreadNotStarted(raises) == "lost"

\* thread.start_new_thread(self.output_parser_verbose, ...), line 195: the
\* thread exists, at its first statement, when the call did not raise
ThreadStarted(raises) == IF raises THEN "lost" ELSE "read"

\* lines 161-182: the parameter file is written, the resource cleaner runs
handle_execute_serialize(j, orig, cleaner_ok, raises) ==
    /\ listening /\ hpc = "listen"
    /\ pc[j] = "idle"
    /\ reply' = [handler |-> "execute", bus |-> "none",
                 inputs |-> Some([job |-> j]),
                 reconnects |-> 0,
                 calls |-> <<>>,
                 logs |-> {}]
    /\ param_file' = [param_file EXCEPT ![j] =
           IF raises THEN None ELSE Serialize(ExecuteMessage(j, orig))]
    /\ pc' = [pc EXCEPT ![j] = IF raises THEN "lost" ELSE "starting"]
    /\ hpc' = IF raises THEN "listen" ELSE "popen"
    /\ escaped' = IF raises THEN escaped \cup {"execute"} ELSE escaped
    /\ listening' = Listen(raises)
    /\ UNCHANGED <<bus_state, remote_wps_endpoint, active, run_log, epc,
                   error_call, line, gs_UID, gs_JID, gs_MSG, return_code, proc,
                   timer, sent, log, kill_target, deser, seen>>

\* subprocess.Popen, lines 187-191: the worker runs from here on
handle_execute_popen(j, raises) ==
    /\ hpc = "popen" /\ reply.handler = "execute"
    /\ pc[j] = "starting"
    /\ proc' = [proc EXCEPT ![j] =
           IF raises THEN @
           ELSE [state |-> "running", code |-> 0, reaped |-> FALSE]]
    /\ pc' = [pc EXCEPT ![j] = IF raises THEN "lost" ELSE @]
    /\ hpc' = IF raises THEN "listen" ELSE "thread"
    /\ escaped' = IF raises THEN escaped \cup {"execute"} ELSE escaped
    /\ listening' = Listen(raises)
    /\ UNCHANGED <<bus_state, remote_wps_endpoint, active, run_log, reply, epc,
                   error_call, line, gs_UID, gs_JID, gs_MSG, return_code,
                   timer, param_file, sent, log, kill_target, deser, seen>>

\* thread.start_new_thread, line 195: the thread runs from here on
handle_execute_thread(j, raises) ==
    /\ hpc = "thread" /\ reply.handler = "execute"
    /\ pc[j] = "starting"
    /\ pc' = [pc EXCEPT ![j] = ThreadStarted(raises)]
    /\ hpc' = IF raises THEN "listen" ELSE "return"
    /\ escaped' = IF raises THEN escaped \cup {"execute"} ELSE escaped
    /\ listening' = Listen(raises)
    /\ UNCHANGED <<bus_state, remote_wps_endpoint, active, run_log, reply, epc,
                   error_call, line, gs_UID, gs_JID, gs_MSG, return_code, proc,
                   timer, param_file, sent, log, kill_target, deser, seen>>

\* line 197 and the return to the Listen loop
handle_execute_return ==
    /\ hpc = "return" /\ reply.handler = "execute"
    /\ hpc' = "listen"
    /\ UNCHANGED <<bus_state, remote_wps_endpoint, active, run_log, listening,
                   escaped, reply, epc, error_call, jobvars>>

(***************************************************************************)
(* output_parser_verbose, lines 245-328: one thread per worker.            *)
(* pc: "idle" no Execute yet; "lost" the handler raised and no thread was  *)
(* started; "read" in the loop of 253-276; "poll" at 279-280; "wait"   *)
(* inside invoked_process.wait() (289); "cancel" at the finally (291);     *)
(* "route" at 293; "done" returned.                                        *)
(***************************************************************************)

\* variant: the three values are attributes of the agent, shared by all threads
TagsShared(j) == [uid |-> gs_UID["A"], jid |-> gs_JID["A"], msg |-> gs_MSG["A"]]

\* gs_UID, gs_JID, gs_MSG are locals of the thread of job j (250-252)
TagsOf(j) == [uid |-> gs_UID[j], jid |-> gs_JID[j], msg |-> gs_MSG[j]]

\* lines 255-276: one readline() and the processing of what it returned
ReadLine(j, ln) ==
    /\ pc[j] = "read"
    /\ line' = [line EXCEPT ![j] = ln]
    /\ IF ln # EOF /\ ~HasSentinel(ln)
       THEN LET new == ParseTags(TagsOf(j), ln)
            IN /\ gs_UID' = [gs_UID EXCEPT ![j] = new.uid]
               /\ gs_JID' = [gs_JID EXCEPT ![j] = new.jid]
               /\ gs_MSG' = [gs_MSG EXCEPT ![j] = new.msg]
               /\ seen' = [seen EXCEPT ![j] = NoteSeen(@, ln)]
               /\ UNCHANGED pc
       ELSE /\ pc' = [pc EXCEPT ![j] = "poll"]
            /\ UNCHANGED <<gs_UID, gs_JID, gs_MSG, seen>>
    /\ UNCHANGED <<bus_state, remote_wps_endpoint, active, run_log, listening, escaped, reply, hpc, epc, error_call,
                   return_code, proc, timer, param_file, sent, log,
                   kill_target, deser>>

\* the exit status Popen reports: the exit code, or minus the signal number
ExitStatus(p) == IF p.state = "killed" THEN 0 - SIGKILL ELSE p.code

\* invoked_process.poll(): None while the worker runs
PollResult(p) == IF p.state = "running" THEN None ELSE Some(ExitStatus(p))

\* "if poll:" (281): neither None nor 0
PollTruthy(r) == r # None /\ r[1] # 0

\* variant: the timer is created and never started
NotStarted(t) == t

\* timer.start(), line 287
Started(t) == "armed"

\* poll() and wait() collect the status of a terminated worker with waitpid:
\* the pid is released then
Reaped(p) == IF p.state = "running" THEN p ELSE [p EXCEPT !.reaped = TRUE]

\* lines 279-287: poll; either take its code or start the timer and wait
Poll(j) ==
    /\ pc[j] = "poll"
    /\ LET r == PollResult(proc[j])
       IN IF PollTruthy(r)
          THEN /\ return_code' = [return_code EXCEPT ![j] = r[1]]
               /\ pc' = [pc EXCEPT ![j] = "route"]
               /\ UNCHANGED timer
          ELSE /\ timer' = [timer EXCEPT ![j] = Started(@)]
               /\ pc' = [pc EXCEPT ![j] = "wait"]
               /\ UNCHANGED return_code
    /\ proc' = [proc EXCEPT ![j] = Reaped(@)]
    /\ UNCHANGED <<bus_state, remote_wps_endpoint, active, run_log, listening, escaped, reply, hpc, epc, error_call,
                   line, gs_UID, gs_JID, gs_MSG, param_file, sent, log,
                   kill_target, deser, seen>>

\* variant: the result of wait() is dropped, the -1 of line 279 stays
WaitResultDropped(p) == 0 - 1

\* return_code = invoked_process.wait(), line 289
WaitResult(p) == ExitStatus(p)

\* line 289: wait() returns once the worker has terminated
Wait(j) ==
    /\ pc[j] = "wait"
    /\ proc[j].state \in {"exited", "killed"}
    /\ return_code' = [return_code EXCEPT ![j] = WaitResult(proc[j])]
    /\ proc' = [proc EXCEPT ![j] = Reaped(@)]
    /\ pc' = [pc EXCEPT ![j] = "cancel"]
    /\ UNCHANGED <<bus_state, remote_wps_endpoint, active, run_log, listening, escaped, reply, hpc, epc, error_call,
                   line, gs_UID, gs_JID, gs_MSG, timer, param_file, sent,
                   log, kill_target, deser, seen>>

\* Timer.cancel() sets the finished event: a timer still waiting never runs
\* its function; one that already tested the event is not stopped
Cancelled(t) == IF t = "armed" THEN "cancelled" ELSE t

\* line 291
Cancel(j) ==
    /\ pc[j] = "cancel"
    /\ timer' = [timer EXCEPT ![j] = Cancelled(@)]
    /\ pc' = [pc EXCEPT ![j] = "route"]
    /\ UNCHANGED <<bus_state, remote_wps_endpoint, active, run_log, listening, escaped, reply, hpc, epc, error_call,
                   line, gs_UID, gs_JID, gs_MSG, return_code, proc, param_file,
                   sent, log, kill_target, deser, seen>>

(***************************************************************************)
(* The Timer(10, invoked_process.kill) thread of line 285.  Timer.run      *)
(* waits on the finished event for the interval, tests it, and then calls  *)
(* the function: the test and the call are two steps.                      *)
(***************************************************************************)

\* variant: the interval also runs out for a timer that was never started
ExpiresUnstarted(t) == t \in {"none", "armed"}

\* only a timer on which start() was called (287) and cancel() was not
Expires(t) == t = "armed"

TimerExpire(j) ==
    /\ Expires(timer[j])
    /\ timer' = [timer EXCEPT ![j] = "expired"]
    /\ UNCHANGED <<bus_state, remote_wps_endpoint, active, run_log, listening, escaped, reply, hpc, epc, error_call,
                   pc, line, gs_UID, gs_JID, gs_MSG, return_code, proc,
                   param_file, sent, log, kill_target, deser, seen>>

\* what os.kill(pid, SIGKILL) reaches: the running worker, the terminated
\* worker whose status was not collected yet, or a pid that poll() or wait()
\* has already released
KillTarget(p) ==
    IF p.state = "running" THEN "alive"
    ELSE IF p.reaped THEN "reaped" ELSE "zombie"

TimerKill(j) ==
    /\ timer[j] = "expired"
    /\ timer' = [timer EXCEPT ![j] = "done"]
    /\ kill_target' = [kill_target EXCEPT ![j] = KillTarget(proc[j])]
    /\ proc' = [proc EXCEPT ![j] =
                   IF @.state = "running" THEN [@ EXCEPT !.state = "killed"] ELSE @]
    /\ UNCHANGED <<bus_state, remote_wps_endpoint, active, run_log, listening, escaped, reply, hpc, epc, error_call,
                   pc, line, gs_UID, gs_JID, gs_MSG, return_code, param_file,
                   sent, log, deser, seen>>

\* the worker terminates by itself with an exit code
WorkerExit(j, code) ==
    /\ proc[j].state = "running"
    /\ proc' = [proc EXCEPT ![j] = [state |-> "exited", code |-> code, reaped |-> FALSE]]
    /\ UNCHANGED <<bus_state, remote_wps_endpoint, active, run_log, listening, escaped, reply, hpc, epc, error_call,
                   pc, line, gs_UID, gs_JID, gs_MSG, return_code, timer,
                   param_file, sent, log, kill_target, deser, seen>>

(***************************************************************************)
(* Originator recovery, lines 293-328.                                     *)
(***************************************************************************)

\* ExecuteMessage.deserialize(param_filepath), line 308: the request that
\* was written, or None when the call raises (file unreadable)
Deserialize(file, readable) == IF readable THEN file ELSE None

\* variant: the stored endpoint is not consulted
TierWithoutEndpoint(tags, endpoint) ==
    IF Truthy(tags.uid) /\ Truthy(tags.jid) THEN 1 ELSE 3

\* variant: the stored endpoint is tested before the captured pair
TierEndpointFirst(tags, endpoint) ==
    IF Truthy(endpoint) THEN 2
    ELSE IF Truthy(tags.uid) /\ Truthy(tags.jid) THEN 1
    ELSE 3

\* the branch taken at lines 299-304
Tier(tags, endpoint) ==
    IF Truthy(tags.uid) /\ Truthy(tags.jid) THEN 1
    ELSE IF Truthy(endpoint) THEN 2
    ELSE 3

\* the text of lines 294-295, and what is appended to it at 301 or 313
FailureText(j, rc, exception) == [pid |-> j, code |-> rc, exception |-> exception]
CheckOutputs == <<"remote process exception. Please check outputs!">>

ErrorMessage(to, text, id) == [kind |-> "Error", to |-> to, text |-> text, id |-> id]

\* variant: tier 3 reports to the stored endpoint instead of the originator
RecoveryMessageToEndpoint(j, rc, tags, endpoint, exe) ==
    CASE Truthy(tags.uid) /\ Truthy(tags.jid) ->
           Some(ErrorMessage(tags.jid[1],
                             FailureText(j, rc, Some(Str(tags.msg))),
                             Some(tags.uid[1])))
      [] OTHER ->
           IF Truthy(endpoint) \/ exe # None
           THEN Some(ErrorMessage(Str(endpoint), FailureText(j, rc, None), None))
           ELSE None

\* the ErrorMessage built by the tier, None if the tier builds none
RecoveryMessage(j, rc, tags, endpoint, exe) ==
    CASE Tier(tags, endpoint) = 1 ->
           Some(ErrorMessage(tags.jid[1],
                             FailureText(j, rc, Some(Str(tags.msg))),
                             Some(tags.uid[1])))
      [] Tier(tags, endpoint) = 2 ->
           Some(ErrorMessage(endpoint[1], FailureText(j, rc, None), None))
      [] OTHER ->
           IF exe # None /\ Truthy(exe[1].originator)
           THEN Some(ErrorMessage(exe[1].originator[1],
                                  FailureText(j, rc, Some(CheckOutputs)),
                                  Some(exe[1].unique_id)))
           ELSE None

\* line 317: "if not exe_msg" holds only when deserialize raised
Stalled(tier, exe) == tier = 3 /\ exe = None

\* the except that receives a failed SendMessage: the outer one (321) logs
\* the disconnection, the inner one of tier 3 (315) passes
SendFailureLogs(tier) == IF tier = 3 THEN {} ELSE {"disconnected"}

Route(j, readable, send_ok) ==
    /\ pc[j] = "route"
    /\ pc' = [pc EXCEPT ![j] = "done"]
    /\ IF return_code[j] = 0
       THEN /\ log' = [log EXCEPT ![j] = @ \cup {"success"}]
            /\ UNCHANGED <<sent, deser, bus_state>>
       ELSE LET tier == Tier(TagsOf(j), remote_wps_endpoint)
                exe == IF tier = 3 THEN Deserialize(param_file[j], readable)
                       ELSE None
                m == RecoveryMessage(j, return_code[j], TagsOf(j),
                                     remote_wps_endpoint, exe)
                failed == m # None /\ ~Delivered(bus_state, send_ok)
            IN /\ deser' = [deser EXCEPT ![j] =
                      IF tier # 3 THEN "none"
                      ELSE IF exe = None THEN "raised" ELSE "ok"]
               /\ sent' = [sent EXCEPT ![j] =
                      IF m = None THEN @
                      ELSE Append(@, SendCall(m[1], bus_state, send_ok))]
               /\ bus_state' = IF m = None THEN bus_state
                               ELSE AfterSend(bus_state, send_ok)
               /\ log' = [log EXCEPT ![j] =
                      @ \cup {"critical"}
                        \cup (IF Stalled(tier, exe) THEN {"stalled"} ELSE {})
                        \cup (IF failed THEN SendFailureLogs(tier) ELSE {})]
    /\ UNCHANGED <<remote_wps_endpoint, active, run_log, listening, escaped, reply, hpc, epc, error_call, line, gs_UID,
                   gs_JID, gs_MSG, return_code, proc, timer, param_file,
                   kill_target, seen>>

(***************************************************************************)
(* send_error_message, lines 330-346: a public method, called by no code   *)
(* of the class; whoever holds the bot may call it from any thread.  Its   *)
(* bus.state() (334), reconnect (335), send_presence (336) and the send    *)
(* (337-341) are steps, as in the handlers: epc is "idle", "reconnect",    *)
(* "presence" or "send".                                                   *)
(***************************************************************************)
ErrorTexts == {<<"boom">>}

send_error_message_state(msg) ==
    /\ epc = "idle"
    /\ error_call' = [bus |-> bus_state, msg |-> Some(msg), calls |-> <<>>,
                      logs |-> {"error"}]
    /\ epc' = IF NeedsReconnect(bus_state) THEN "reconnect" ELSE "send"
    /\ UNCHANGED <<bus_state, remote_wps_endpoint, active, run_log, listening, escaped, reply,
                   hpc, jobvars>>

send_error_message_reconnect(rc_ok) ==
    /\ epc = "reconnect"
    /\ bus_state' = AfterReconnect(rc_ok)
    /\ error_call' = [error_call EXCEPT
                         !.calls = Append(@, ReconnectCall(bus_state, rc_ok)),
                         !.logs = IF rc_ok THEN @ ELSE @ \cup {"disconnected"}]
    /\ epc' = IF rc_ok THEN "presence" ELSE "idle"
    /\ UNCHANGED <<remote_wps_endpoint, active, run_log, listening, escaped, reply, hpc, jobvars>>

\* line 336
send_error_message_presence(pr_ok) ==
    /\ epc = "presence"
    /\ bus_state' = AfterSend(bus_state, pr_ok)
    /\ error_call' = [error_call EXCEPT
                         !.calls = Append(@, PresenceCall(bus_state, pr_ok)),
                         !.logs = IF Delivered(bus_state, pr_ok) THEN @
                                  ELSE @ \cup {"disconnected"}]
    /\ epc' = IF Delivered(bus_state, pr_ok) THEN "send" ELSE "idle"
    /\ UNCHANGED <<remote_wps_endpoint, active, run_log, listening, escaped, reply, hpc, jobvars>>

\* lines 337-341: to the stored endpoint, or the STALLED log entry
send_error_message_send(send_ok) ==
    /\ epc = "send"
    /\ IF Truthy(remote_wps_endpoint)
       THEN LET m == ErrorMessage(remote_wps_endpoint[1], error_call.msg[1], None)
            IN /\ error_call' = [error_call EXCEPT
                                    !.calls = Append(@, SendCall(m, bus_state, send_ok)),
                                    !.logs = IF Delivered(bus_state, send_ok) THEN @
                                             ELSE @ \cup {"disconnected"}]
               /\ bus_state' = AfterSend(bus_state, send_ok)
       ELSE /\ error_call' = [error_call EXCEPT !.logs = @ \cup {"stalled"}]
            /\ UNCHANGED bus_state
    /\ epc' = "idle"
    /\ UNCHANGED <<remote_wps_endpoint, active, run_log, listening, escaped, reply, hpc, jobvars>>

\* the connection to the bus is lost
BusDrop ==
    /\ bus_state = "connected"
    /\ bus_state' = "disconnected"
    /\ UNCHANGED <<remote_wps_endpoint, active, run_log, listening, escaped, reply, hpc, epc, error_call, jobvars>>

(***************************************************************************)
(* The system: the dispatcher thread, the supervision threads, the timers, *)
(* the workers and the bus connection.                                     *)
(***************************************************************************)
\* run(), lines 129-136: an active service enters bus.Listen(), which
\* dispatches the handlers; a disabled one logs that and returns
run ==
    /\ run_log = {}
    /\ listening' = active
    /\ run_log' = IF active THEN {"listening"} ELSE {"disabled"}
    /\ UNCHANGED <<bus_state, remote_wps_endpoint, active, escaped, reply, hpc,
                   epc, error_call, jobvars>>

\* a step of a handler on the dispatcher thread, with its inputs drawn from
\* the given sets
Invite ==
    \/ handle_invite_state
    \/ \E rc_ok \in BOOLEAN : handle_invite_reconnect(rc_ok)
    \/ \E pr_ok \in BOOLEAN : handle_invite_presence(pr_ok)
    \/ \E send_ok \in BOOLEAN : handle_invite_send(send_ok)

Execute(jobs, faults) ==
    \/ \E j \in jobs, cleaner_ok \in BOOLEAN : \E orig \in OriginatorsOf(j) :
          \E raises \in MayRaise("serialize", faults) :
             handle_execute_serialize(j, orig, cleaner_ok, raises)
    \/ \E j \in jobs : \E raises \in MayRaise("popen", faults) :
          handle_execute_popen(j, raises)
    \/ \E j \in jobs : \E raises \in MayRaise("thread", faults) :
          handle_execute_thread(j, raises)
    \/ handle_execute_return

GetLoadAverage(inst, smooth) ==
    \/ \E l \in inst, m \in inst, L \in smooth, L2 \in smooth, M \in smooth,
          M2 \in smooth, bl \in BOOLEAN, read_ok \in BOOLEAN :
          handle_getloadavg_state(l, m, L, L2, M, M2, bl, read_ok)
    \/ \E rc_ok \in BOOLEAN : handle_getloadavg_reconnect(rc_ok)
    \/ \E pr_ok \in BOOLEAN : handle_getloadavg_presence(pr_ok)
    \/ \E send_ok \in BOOLEAN : handle_getloadavg_send(send_ok)

\* a step of a call of send_error_message
SendErrorMessage ==
    \/ \E msg \in ErrorTexts : send_error_message_state(msg)
    \/ \E rc_ok \in BOOLEAN : send_error_message_reconnect(rc_ok)
    \/ \E pr_ok \in BOOLEAN : send_error_message_presence(pr_ok)
    \/ \E send_ok \in BOOLEAN : send_error_message_send(send_ok)

\* one step of the thread of job j, whose worker prints lines of the set lines
Supervise(j, lines) ==
    \/ \E ln \in lines \cup {EOF} : ReadLine(j, ln)
    \/ Poll(j)
    \/ Wait(j)
    \/ Cancel(j)
    \/ \E readable \in BOOLEAN, send_ok \in BOOLEAN : Route(j, readable, send_ok)

\* one step of the timer thread or of the worker of job j
Timer(j) == TimerExpire(j) \/ TimerKill(j)
Worker(j) == \E code \in ExitCodes : WorkerExit(j, code)

(***************************************************************************)
(* Spec: one Execute request and its supervision, with the bus.            *)
(***************************************************************************)
Next ==
    \/ run
    \/ Execute({"A"}, Faults)
    \/ Supervise("A", LinesOf("A"))
    \/ Timer("A")
    \/ Worker("A")
    \/ BusDrop

Spec == Init /\ [][Next]_vars

\* the scheduler runs every started thread, and a started Timer runs
Fairness ==
    /\ WF_vars(Poll("A")) /\ WF_vars(Wait("A")) /\ WF_vars(Cancel("A"))
    /\ WF_vars(\E readable \in BOOLEAN, send_ok \in BOOLEAN :
                  Route("A", readable, send_ok))
    /\ WF_vars(Timer("A"))

FairSpec == Spec /\ Fairness

\* the same steps, and calls of send_error_message, on a bot whose stored
\* endpoint may have been set
NextPreset == Next \/ SendErrorMessage

SpecPreset == InitPreset /\ [][NextPreset]_vars

(***************************************************************************)
(* SpecPair: two Execute requests supervised concurrently.  The workers    *)
(* print tagged lines only; an Execute succeeds or fails to start its      *)
(* thread.                                                                 *)
(***************************************************************************)
PairLinesOf(j) == {WellFormed(UidOf[j], JidOf[j], MsgOf[j]), UidOnly(Uid2Of[j])}
PairFaults == {"thread"}

NextPair ==
    \/ run
    \/ Execute(Jobs, PairFaults)
    \/ \E j \in Jobs : Supervise(j, PairLinesOf(j))
    \/ \E j \in Jobs : Timer(j)
    \/ \E j \in Jobs : Worker(j)
    \/ BusDrop

SpecPair == Init /\ [][NextPair]_vars

(***************************************************************************)
(* SpecConstructed: the three handlers called by the Listen loop and calls *)
(* of send_error_message while a worker is supervised, on a service bot as *)
(* __init__ leaves it.                                                     *)
(***************************************************************************)
DispatchLinesOf(j) == {WellFormed(UidOf[j], JidOf[j], MsgOf[j])}
DispatchSamples == {40}

NextDispatch ==
    \/ run
    \/ Invite
    \/ Execute({"A"}, Faults)
    \/ GetLoadAverage(DispatchSamples, DispatchSamples)
    \/ SendErrorMessage
    \/ Supervise("A", DispatchLinesOf("A"))
    \/ Timer("A")
    \/ Worker("A")
    \/ BusDrop

SpecConstructed == Init /\ [][NextDispatch]_vars

(***************************************************************************)
(* SpecCapacity: GetLoadAverage events over a range of samples.            *)
(***************************************************************************)
InstSamples == {40, 50}
SmoothSamples == {0, 20, 30}

NextCapacity ==
    \/ run
    \/ GetLoadAverage(InstSamples, SmoothSamples)
    \/ BusDrop

SpecCapacity == Init /\ [][NextCapacity]_vars

(***************************************************************************)
(* Properties.                                                             *)
(***************************************************************************)
Done(j) == pc[j] = "done"
Failed(j) == Done(j) /\ return_code[j] # 0

\* the Error messages the thread of job j handed to SendMessage
ErrorsOf(j) == [i \in 1..Len(sent[j]) |-> sent[j][i].msg]

PairCaptured(j) == Truthy(gs_UID[j]) /\ Truthy(gs_JID[j])

\* C1: a worker that exited with code 0 never has an Error message sent for
\* it, whatever lines it printed.
C1_NoErrorOnExitZero ==
    \A j \in Jobs :
        (proc[j].state = "exited" /\ proc[j].code = 0) => sent[j] = <<>>

C1_Witness ==
    /\ Done("A") /\ proc["A"].state = "exited" /\ proc["A"].code = 0
    /\ seen["A"].wf # {} /\ PairCaptured("A")
    /\ "success" \in log["A"]

\* C2: a failed worker whose output contained the well-formed line
\* (u, j, m), and no well-formed line with other values, has exactly one
\* Error, addressed to j, tagged u and carrying m.
C2_WellFormedLineRoutes ==
    \A j \in Jobs : \A w \in seen[j].wf :
        (Failed(j) /\ seen[j].wf = {w}) =>
            /\ Len(sent[j]) = 1
            /\ ErrorsOf(j)[1].to = w.jid
            /\ ErrorsOf(j)[1].id = Some(w.uid)
            /\ ErrorsOf(j)[1].text.exception = Some(w.msg)

\* C3: a failed worker that printed no UID and no JID tag, with a stored
\* endpoint e, has one Error addressed to e without a unique id, and the
\* parameter file is not deserialized.
C3_StoredEndpointRoutes ==
    \A j \in Jobs :
        (Failed(j) /\ ~seen[j].uid /\ ~seen[j].jid /\ Truthy(remote_wps_endpoint)) =>
            /\ Len(sent[j]) = 1
            /\ ErrorsOf(j)[1].to = remote_wps_endpoint[1]
            /\ ErrorsOf(j)[1].id = None
            /\ deser[j] = "none"

C3_Witness ==
    /\ Failed("A") /\ ~seen["A"].uid /\ ~seen["A"].jid
    /\ remote_wps_endpoint = Some(Endpoint)
    /\ param_file["A"] # None /\ Truthy(param_file["A"][1].originator)
    /\ Len(sent["A"]) = 1 /\ ErrorsOf("A")[1].to = Endpoint

\* C4: a failed worker with no UID/JID pair captured and no stored endpoint,
\* whose parameter file deserializes to a request with originator o and
\* unique id q, has exactly one Error, addressed to o and tagged q.
C4_ParameterFileRoutes ==
    \A j \in Jobs :
        (/\ Failed(j) /\ ~PairCaptured(j) /\ ~Truthy(remote_wps_endpoint)
         /\ deser[j] = "ok" /\ Truthy(param_file[j][1].originator)) =>
            /\ Len(sent[j]) = 1
            /\ ErrorsOf(j)[1].to = <<OriginatorOf[j]>>
            /\ ErrorsOf(j)[1].id = Some(<<UniqueIdOf[j]>>)

C4_Witness ==
    /\ Failed("A") /\ ~PairCaptured("A") /\ remote_wps_endpoint = None
    /\ deser["A"] = "ok"
    /\ Len(sent["A"]) = 1 /\ ErrorsOf("A")[1].to = <<OriginatorOf["A"]>>
    /\ seen["A"].uid

\* C5: a failed worker for which no tier yields a destination (no pair, no
\* stored endpoint, parameter file unreadable or without originator) has no
\* message sent and a "stalled" log entry.
C5_NoDestinationIsStalled ==
    \A j \in Jobs :
        (/\ Failed(j) /\ ~PairCaptured(j) /\ ~Truthy(remote_wps_endpoint)
         /\ (deser[j] = "raised" \/ ~Truthy(param_file[j][1].originator))) =>
            /\ sent[j] = <<>>
            /\ "stalled" \in log[j]

\* C6: the timer is cancelled on every path out of the exit-code wait, and
\* once wait() has returned the code of a worker that exited by itself the
\* timer's kill is never executed.
C6_NoKillAfterExitCode ==
    \A j \in Jobs :
        /\ pc[j] \in {"route", "done"} => timer[j] # "armed"
        /\ kill_target[j] # "reaped"

\* C7: a worker still running when the exit-code wait begins after the end
\* of its output is killed by the timer unless it exits first, never killed
\* before the timer expired; the thread then holds a non-zero code, goes
\* through originator recovery and returns.
HangsAfterOutput(j) == pc[j] = "wait" /\ line[j] = EOF /\ proc[j].state = "running"

Resolved(j) ==
    /\ Done(j)
    /\ proc[j].state = "killed" =>
           /\ return_code[j] = 0 - SIGKILL
           /\ kill_target[j] = "alive"
           /\ "critical" \in log[j]

C7_HungWorkerIsKilled ==
    /\ \A j \in {"A"} : HangsAfterOutput(j) ~> (proc[j].state # "running")
    /\ \A j \in {"A"} : HangsAfterOutput(j) ~> Resolved(j)
    /\ [](\A j \in Jobs : proc[j].state = "killed" => timer[j] = "done")

C7_Witness ==
    /\ Done("A") /\ line["A"] = EOF /\ proc["A"].state = "killed"
    /\ return_code["A"] = 0 - SIGKILL /\ Len(sent["A"]) = 1

\* C8: every LoadAverage report carries, without a blacklisted process, the
\* mean of the instantaneous and the smoothed value where the smoothed value
\* is positive and the instantaneous value alone otherwise, for load and
\* memory independently; with a blacklisted process it carries (100, 100).
\* Samples (40, 50) with smoothed (20, 30) give (30, 40).  Reported values
\* are in halves of a percent: the mean of a and b reads a + b, x reads 2x.
\* The smoothed value of the event is the one the handler tested or the one
\* it averaged, whichever fits.
ReportsOf(r) == {i \in 1..Len(r.calls) : r.calls[i].op = "SendMessage"}

MeanOrInstant(inst, smooth) == IF smooth > 0 THEN inst + smooth ELSE 2 * inst

C8_TornRead ==
    /\ reply.handler = "getloadavg" /\ reply.inputs # None
    /\ reply.inputs[1] = [l |-> 40, m |-> 40, L |-> 20, L2 |-> 20, M |-> 20,
                          M2 |-> 0, bl |-> FALSE]
    /\ ReportsOf(reply) # {}
    /\ \A i \in ReportsOf(reply) :
           reply.calls[i].msg.loadavg = 60 /\ reply.calls[i].msg.vmem = 40

\* C9: with two jobs supervised concurrently, an Error sent for a job holds
\* only values of that job's own output and parameter file, never a UID, JID
\* or MSG of the other job, and every failed job is routed by its own thread.
OwnAddresses(j) == {<<JidOf[j]>>, <<Jid2Of[j]>>, <<OriginatorOf[j]>>, Endpoint}
OwnIds(j) == {None, Some(<<UidOf[j]>>), Some(<<Uid2Of[j]>>), Some(<<UniqueIdOf[j]>>)}
OwnTexts(j) == {None, Some(<<MsgOf[j]>>), Some(<<Msg2Of[j]>>), Some(<<"None">>),
                Some(CheckOutputs)}

C9_NoCrossTalk ==
    \A j \in Jobs :
        /\ Len(sent[j]) <= 1
        /\ \A i \in 1..Len(sent[j]) :
               /\ ErrorsOf(j)[i].to \in OwnAddresses(j)
               /\ ErrorsOf(j)[i].id \in OwnIds(j)
               /\ ErrorsOf(j)[i].text.exception \in OwnTexts(j)
               /\ ErrorsOf(j)[i].text.pid = j
        /\ Failed(j) => "critical" \in log[j]
        /\ (Failed(j) /\ PairCaptured(j)) =>
               (Len(sent[j]) = 1 /\ ErrorsOf(j)[1].to = gs_JID[j][1]
                /\ ErrorsOf(j)[1].id = gs_UID[j])

C9_Witness ==
    /\ Failed("A") /\ Len(sent["A"]) = 1
    /\ ErrorsOf("A")[1].id = Some(<<UidOf["A"]>>)
    /\ pc["B"] = "read" /\ gs_UID["B"] = Some(<<Uid2Of["B"]>>)
    /\ gs_JID["B"] = Some(<<JidOf["B"]>>)

\* C10: whatever fails inside a handler is caught inside it: no exception
\* reaches the dispatcher and the Listen loop keeps serving events.
C10_HandlersContained ==
    /\ escaped = {}
    /\ run_log = {"listening"} => listening

\* C11: no step of handle_execute waits for the worker or for its thread:
\* once the handler is past the parameter file its next step can be taken
\* whatever the worker has done; when it returns to the dispatcher the worker
\* was launched and has its thread; between handlers the dispatcher can be
\* handed further Invite, Execute and GetLoadAverage events while workers
\* run; every worker of an Execute whose handler returned has a supervision
\* thread of its own, so two running workers have two.
Supervised(j) == pc[j] \in {"read", "poll", "wait", "cancel", "route", "done"}

InsideExecute == reply.handler = "execute" /\ hpc \in {"popen", "thread", "return"}

HandlerNeverWaits == InsideExecute => ENABLED Execute(Jobs, {})

ExecuteReturnsAtOnce ==
    (hpc = "return" /\ hpc' = "listen") =>
        /\ reply.handler = "execute"
        /\ proc'[reply.inputs[1].job].state # "none"
        /\ pc'[reply.inputs[1].job] \in
               {"read", "poll", "wait", "cancel", "route", "done"}
        /\ listening'

DispatcherStaysFree ==
    \A j \in Jobs :
        (proc[j].state = "running" /\ listening /\ hpc = "listen") =>
            /\ ENABLED Invite
            /\ ENABLED GetLoadAverage(DispatchSamples, DispatchSamples)
            /\ \A k \in Jobs : pc[k] = "idle" => ENABLED Execute({k}, {})

C11_ExecuteHandsOff ==
    /\ [][ExecuteReturnsAtOnce]_vars
    /\ []HandlerNeverWaits
    /\ [](\A j \in Jobs :
             /\ Supervised(j) => proc[j].state # "none"
             /\ proc[j].state # "none" =>
                    \/ Supervised(j)
                    \/ (pc[j] = "starting" /\ hpc = "thread")
                    \/ (pc[j] = "lost" /\ ~listening))
    /\ []DispatcherStaysFree

C11_Witness ==
    /\ listening /\ hpc = "listen"
    /\ \A j \in Jobs : proc[j].state = "running" /\ Supervised(j)
    /\ pc["A"] = "wait" /\ pc["B"] = "read"

\* C12: when the SendMessage of the Error fails, in whichever tier, the
\* thread still returns, a disconnection note is logged and the job is not
\* reported as stalled.
SendFailed(j) == \E i \in 1..Len(sent[j]) : ~sent[j][i].ok

C12_SendFailureIsLogged ==
    \A j \in Jobs :
        (pc[j] = "done" /\ SendFailed(j)) =>
            /\ "disconnected" \in log[j]
            /\ "stalled" \notin log[j]

\* C13: recovery runs once for a failed worker and takes the first tier
\* that has a destination, in the order captured pair, stored endpoint,
\* parameter file: at most one Error per job, one whenever a tier has a
\* destination, and a lower tier is consulted only when no higher one has.
C13_FirstTierWins ==
    \A j \in Jobs :
        /\ Len(sent[j]) <= 1
        /\ ~Failed(j) => (sent[j] = <<>> /\ deser[j] = "none")
        /\ Failed(j) => "critical" \in log[j]
        /\ (Failed(j) /\ PairCaptured(j)) =>
               /\ Len(sent[j]) = 1
               /\ ErrorsOf(j)[1].to = gs_JID[j][1]
               /\ ErrorsOf(j)[1].id = gs_UID[j]
               /\ deser[j] = "none"
        /\ (Failed(j) /\ ~PairCaptured(j) /\ Truthy(remote_wps_endpoint)) =>
               /\ Len(sent[j]) = 1
               /\ ErrorsOf(j)[1].to = remote_wps_endpoint[1]
               /\ deser[j] = "none"
        /\ deser[j] # "none" =>
               /\ Failed(j) /\ ~PairCaptured(j) /\ ~Truthy(remote_wps_endpoint)
               /\ \A i \in 1..Len(sent[j]) : ErrorsOf(j)[i].to = <<OriginatorOf[j]>>
        /\ (deser[j] = "ok" /\ Truthy(param_file[j][1].originator)) =>
               Len(sent[j]) = 1

C13_Witness ==
    /\ Failed("A") /\ PairCaptured("A")
    /\ remote_wps_endpoint = Some(Endpoint)
    /\ Truthy(param_file["A"][1].originator)
    /\ Len(sent["A"]) = 1 /\ ErrorsOf("A")[1].to = <<Jid2Of["A"]>>
    /\ ErrorsOf("A")[1].id = Some(<<Uid2Of["A"]>>)
    /\ deser["A"] = "none"

\* C14 as stated: every Invite makes a reconnect attempt first when the bus
\* was found not connected and then exactly one SendMessage of a Register
\* message to the inviter with the service name, namespace, description and
\* both schemas; no exception leaves the handler.
SendsOf(r) == {i \in 1..Len(r.calls) : r.calls[i].op = "SendMessage"}
ReconnectsOf(r) == {i \in 1..Len(r.calls) : r.calls[i].op = "reconnect"}

IsRegister(m) ==
    /\ m.kind = "Register" /\ m.to = Inviter
    /\ m.service = "service" /\ m.namespace = "namespace"
    /\ m.description = "description"
    /\ m.inputs = "input_parameters_DLR" /\ m.outputs = "output_parameters_DLR"

\* the Invite handler has returned
InviteHandled == reply.handler = "invite" /\ hpc = "listen"

ReconnectsFirst(r) ==
    /\ (r.bus # "connected" /\ hpc # "reconnect") =>
           (r.calls # <<>> /\ r.calls[1].op = "reconnect")
    /\ r.bus = "connected" => ReconnectsOf(r) = {}
    /\ Cardinality(ReconnectsOf(r)) <= 1

C14_InviteAlwaysRegisters ==
    InviteHandled =>
        /\ ReconnectsFirst(reply)
        /\ Cardinality(SendsOf(reply)) = 1
        /\ \A i \in SendsOf(reply) : i = Len(reply.calls) /\ IsRegister(reply.calls[i].msg)
        /\ "invite" \notin escaped

\* C14 amended: every Invite makes a reconnect attempt first when the bus
\* was found not connected; when that attempt raises, in reconnect() or in
\* the send_presence() after it, nothing is sent and the failure is logged;
\* otherwise exactly one Register message is handed to SendMessage, after
\* the reconnect; no exception leaves the handler.
ReconnectRaised(r) ==
    \E i \in 1..Len(r.calls) :
        r.calls[i].op \in {"reconnect", "send_presence"} /\ ~r.calls[i].ok

C14_InviteRegistersUnlessReconnectRaises ==
    reply.handler = "invite" =>
        /\ ReconnectsFirst(reply)
        /\ ReconnectRaised(reply) =>
               (SendsOf(reply) = {} /\ "disconnected" \in reply.logs)
        /\ (InviteHandled /\ ~ReconnectRaised(reply)) =>
               Cardinality(SendsOf(reply)) = 1
        /\ Cardinality(SendsOf(reply)) <= 1
        /\ \A i \in SendsOf(reply) : i = Len(reply.calls) /\ IsRegister(reply.calls[i].msg)
        /\ (\E i \in SendsOf(reply) : ~reply.calls[i].ok) => "disconnected" \in reply.logs
        /\ "invite" \notin escaped
        /\ listening

C14_Witness ==
    /\ InviteHandled /\ reply.bus = "disconnected"
    /\ Len(reply.calls) = 3
    /\ reply.calls[1].op = "reconnect" /\ reply.calls[1].ok
    /\ reply.calls[2].op = "send_presence" /\ reply.calls[2].ok
    /\ reply.calls[3].op = "SendMessage" /\ IsRegister(reply.calls[3].msg)
    /\ ~reply.calls[3].ok /\ "disconnected" \in reply.logs
    /\ pc["A"] = "wait"

\* C15 as stated: the thread leaves the read loop only at end-of-stream; a
\* sentinel line does not end the reading.
LoopLeft(j) == Supervised(j) /\ pc[j] # "read"

C15_ReadsUntilEndOfStream ==
    \A j \in Jobs : LoopLeft(j) => line[j] = EOF

Phrases(ln) == { ln[i] : i \in 1..Len(ln) }

\* C15 amended: the thread reads until end-of-stream or the first line that
\* holds the sentinel phrase: that line ends the loop, nothing printed after
\* it is read, and the tags held are those of the lines read before it.
C15_ReadsUntilEndOrSentinel ==
    \A j \in Jobs :
        /\ LoopLeft(j) => (line[j] = EOF \/ Sentinel \in Phrases(line[j]))
        /\ pc[j] = "read" => Sentinel \notin Phrases(line[j])
        /\ seen[j].uid <=> gs_UID[j] # None
        /\ seen[j].uid => gs_UID[j] = re_search("UID", seen[j].last)

C15_Witness ==
    /\ pc["A"] = "done" /\ line["A"] = SentinelLine
    /\ seen["A"].last = UidOnly(Uid2Of["A"])
    /\ proc["A"].state = "exited" /\ proc["A"].code = 1
    /\ Len(sent["A"]) = 1

\* C16 as stated: a worker is killed only after its output reached
\* end-of-stream and the timer armed then has fired.
Killed(j) == proc[j].state = "killed"

C16_KilledOnlyAfterEndOfStream ==
    \A j \in Jobs : Killed(j) => (line[j] = EOF /\ timer[j] = "done")

\* C16 amended: a worker is killed only after the read loop has ended, at
\* end-of-stream or at a sentinel line, and the timer started then has fired;
\* no timer exists while the loop is still reading.
C16_KilledOnlyAfterLoopAndTimer ==
    \A j \in Jobs :
        /\ Killed(j) =>
              /\ line[j] = EOF \/ Sentinel \in Phrases(line[j])
              /\ timer[j] = "done" /\ kill_target[j] = "alive"
              /\ pc[j] \in {"wait", "cancel", "route", "done"}
        /\ pc[j] \in {"idle", "starting", "lost", "read", "poll"} => timer[j] = "none"

C16_Witness ==
    /\ Killed("A") /\ line["A"] = SentinelLine
    /\ pc["A"] = "done" /\ return_code["A"] = 0 - SIGKILL

\* C17: a line that carries a UID tag and no JID tag leaves the recovery
\* state (gs_UID, gs_JID, gs_MSG) as it was before the line was read.
UidWithoutJid(ln) ==
    ln # EOF /\ re_search("UID", ln) # None /\ re_search("JID", ln) = None

C17_UidOnlyLineChangesNothing ==
    [][\A j \in Jobs :
          (pc[j] = "read" /\ seen'[j] # seen[j] /\ UidWithoutJid(line'[j])) =>
              /\ gs_UID'[j] = gs_UID[j]
              /\ gs_JID'[j] = gs_JID[j]
              /\ gs_MSG'[j] = gs_MSG[j]]_vars

\* C18: every SendMessage attempted while the bus is not connected comes
\* after one reconnect attempt made by the same handler or thread: in the
\* Invite and GetLoadAverage handlers and for the Error of recovery.
C18_ReconnectBeforeEverySend ==
    /\ (reply.bus # "connected" /\ SendsOf(reply) # {}) =>
           (Cardinality(ReconnectsOf(reply)) = 1 /\ reply.calls[1].op = "reconnect")
    /\ \A j \in Jobs : \A i \in 1..Len(sent[j]) :
           sent[j][i].bus # "connected" =>
               \E k \in 1..(i - 1) : sent[j][k].op = "reconnect"

\* C19: the recovery triple (gs_UID, gs_JID, gs_MSG) is either wholly unset
\* or holds the three values of one single line the worker printed.
FromOneLine(j) ==
    \E w \in seen[j].wf :
        gs_UID[j] = Some(w.uid) /\ gs_JID[j] = Some(w.jid) /\ gs_MSG[j] = Some(w.msg)

C19_TripleFromOneLine ==
    \A j \in Jobs :
        \/ gs_UID[j] = None /\ gs_JID[j] = None /\ gs_MSG[j] = None
        \/ FromOneLine(j)

\* C20: on a service bot as constructed the stored endpoint stays unset
\* whatever events are handled, so recovery never takes tier 2: no Error is
\* addressed to a stored endpoint, by a thread or by send_error_message, and
\* a failed worker without a captured pair always has its parameter file
\* consulted.
C20_EndpointNeverSet ==
    /\ remote_wps_endpoint = None
    /\ \A i \in 1..Len(error_call.calls) : error_call.calls[i].op # "SendMessage"
    /\ \A j \in Jobs :
          /\ \A i \in 1..Len(sent[j]) : ErrorsOf(j)[i].to # Endpoint
          /\ (Failed(j) /\ ~PairCaptured(j)) => deser[j] # "none"

C20_Witness ==
    /\ Failed("A") /\ ~seen["A"].uid /\ remote_wps_endpoint = None
    /\ reply.handler = "invite" /\ SendsOf(reply) # {}
    /\ epc = "idle" /\ "stalled" \in error_call.logs
    /\ deser["A"] = "ok" /\ Len(sent["A"]) = 1
    /\ ErrorsOf("A")[1].id = Some(<<UniqueIdOf["A"]>>)

====
